---- MODULE Spec2Model ----
(***************************************************************************)
(* Model of data/chromadb/init_embedded.py: initialize_chromadb() builds   *)
(* the Settings, constructs the embedded client, creates the collection    *)
(* "test_offline_collection", adds one document, queries it, prints the    *)
(* outcome and returns a boolean.                                          *)
(*                                                                         *)
(* The state is the content of the persistence directory (the collections  *)
(* and the ids of their documents), the position of the running call, its  *)
(* locals, its output, and the record of the calls that have ended.        *)
(* The embedded database is an external library: its operations are        *)
(* modelled by their contract (create_collection refuses a name that is    *)
(* present, add refuses an id that is present, query returns at most       *)
(* n_results documents, the directory keeps what was written).  Any        *)
(* external operation may also raise for a reason of the environment; the  *)
(* stage at which the environment makes a call fail is an input of the     *)
(* call.                                                                   *)
(***************************************************************************)
EXTENDS Integers, Sequences, FiniteSets, TLC

VARIABLES dirMode, store, pc, fault, pre, client, collection, results,
          steps, printed, raised, hist

vars == <<dirMode, store, pc, fault, pre, client, collection, results,
          steps, printed, raised, hist>>

\* ------------------------------------------------------------- bounds
\* Number of calls of initialize_chromadb() against the same directory.
MaxCalls == 3

\* --------------------------------------------------- program constants
CollectionName == "test_offline_collection"
DocId == "test_doc_1"
NResults == 1

\* -------------------------------------------------- the environment
\* Another collection that may live in the same directory, and a document
\* that it may hold.
OtherName == "other_collection"
OtherDoc == "other_doc_1"
Names == {CollectionName, OtherName}

\* State of the directory persist_dir names.
DirModes == {"writable", "readonly", "noncreatable"}

\* The external operations of one call, in program order.
Stages == <<"Settings", "Client", "create_collection", "add", "query">>
StageSet == {Stages[i] : i \in 1..Len(Stages)}

NoFault == "none"
NoErr == "none"

\* The faults the environment can inject into a call.  A directory that
\* cannot be written makes the library raise at the operation that first
\* uses it, which is the library's choice among Client, create_collection
\* and add.
AllowedFaults(d) ==
    IF d = "writable"
    THEN {NoFault} \cup StageSet
    ELSE {"Client", "create_collection", "add"}

\* The error an injected fault raises at a stage.
EnvError(stage) ==
    CASE stage = "Settings"          -> "SettingsError"
      [] stage = "Client"            -> "ClientError"
      [] stage = "create_collection" -> "CreateError"
      [] stage = "add"               -> "AddError"
      [] stage = "query"             -> "QueryError"

\* ------------------------------------------------ the external library
NoCollection == [exists |-> FALSE, ids |-> {}]
EmptyCollection == [exists |-> TRUE, ids |-> {}]

\* client.create_collection(name): a name that is present is refused.
create_collection(s, name) ==
    IF s[name].exists
    THEN [err |-> "CollectionExists", store |-> s]
    ELSE [err |-> NoErr, store |-> [s EXCEPT ![name] = EmptyCollection]]

\* collection.add(ids=[id]): an id that is present is refused.
add(s, name, id) ==
    IF id \in s[name].ids
    THEN [err |-> "IdExists", store |-> s]
    ELSE [err |-> NoErr,
          store |-> [s EXCEPT ![name].ids = s[name].ids \cup {id}]]

\* collection.query(n_results=n): the number of documents of the first
\* result group, at most n and at most what the collection holds.
query(s, name, n) ==
    IF Cardinality(s[name].ids) < n THEN Cardinality(s[name].ids) ELSE n

\* ----------------------------------------------------------- output
SuccessLine == [kind |-> "success", n |-> 0, e |-> NoErr]
CountLine(k) == [kind |-> "count", n |-> k, e |-> NoErr]
FailureLine(err) == [kind |-> "failure", n |-> 0, e |-> err]

\* ------------------------------------------------------------ state
Init ==
    /\ dirMode \in DirModes
    /\ store \in [Names -> {NoCollection, EmptyCollection}]
                 \cup {[n \in Names |->
                           IF n = OtherName
                           THEN [exists |-> TRUE, ids |-> {OtherDoc}]
                           ELSE c] : c \in {NoCollection, EmptyCollection}}
    /\ pc = "idle"
    /\ fault = NoFault
    /\ pre = NoCollection
    /\ client = FALSE
    /\ collection = "none"
    /\ results = -1
    /\ steps = <<>>
    /\ printed = <<>>
    /\ raised = NoErr
    /\ hist = <<>>

\* The call ends: its record is appended and the locals are dropped.
EndCall(res, out, err) ==
    /\ hist' = Append(hist, [pre |-> pre, fault |-> fault, steps |-> steps',
                             printed |-> out, result |-> res, raised |-> err,
                             post |-> store[CollectionName]])
    /\ pc' = "idle"
    /\ fault' = NoFault
    /\ pre' = NoCollection
    /\ client' = FALSE
    /\ collection' = "none"
    /\ results' = -1
    /\ printed' = <<>>
    /\ raised' = NoErr

\* Entry of initialize_chromadb(): persist_dir is computed; the environment
\* of this call is fixed.
initialize_chromadb(f) ==
    /\ pc = "idle"
    /\ Len(hist) < MaxCalls
    /\ f \in AllowedFaults(dirMode)
    /\ pc' = "Settings"
    /\ fault' = f
    /\ pre' = store[CollectionName]
    /\ steps' = <<>>
    /\ UNCHANGED <<dirMode, store, client, collection, results, printed,
                   raised, hist>>

\* Settings(...) is evaluated outside the try block: what it raises leaves
\* the function.
Settings ==
    /\ pc = "Settings"
    /\ IF fault = "Settings"
       THEN /\ steps' = Append(steps, [op |-> "Settings", ok |-> FALSE])
            /\ EndCall("raised", <<>>, EnvError("Settings"))
       ELSE /\ steps' = Append(steps, [op |-> "Settings", ok |-> TRUE])
            /\ pc' = "Client"
            /\ UNCHANGED <<fault, pre, client, collection, results, printed,
                           raised, hist>>
    /\ UNCHANGED <<dirMode, store>>

\* chromadb.Client(settings) is called outside the try block too.
Client ==
    /\ pc = "Client"
    /\ IF fault = "Client"
       THEN /\ steps' = Append(steps, [op |-> "Client", ok |-> FALSE])
            /\ EndCall("raised", <<>>, EnvError("Client"))
       ELSE /\ steps' = Append(steps, [op |-> "Client", ok |-> TRUE])
            /\ pc' = "create_collection"
            /\ client' = TRUE
            /\ UNCHANGED <<fault, pre, collection, results, printed,
                           raised, hist>>
    /\ UNCHANGED <<dirMode, store>>

\* Variant of client_create_collection: an existing collection is dropped
\* and created again instead of being refused.
client_create_collection_reset ==
    /\ pc = "create_collection"
    /\ client
    /\ IF fault = "create_collection"
       THEN /\ steps' = Append(steps, [op |-> "create_collection",
                                       ok |-> FALSE])
            /\ raised' = EnvError("create_collection")
            /\ pc' = "except"
            /\ UNCHANGED <<store, collection>>
       ELSE /\ steps' = Append(steps, [op |-> "create_collection",
                                       ok |-> TRUE])
            /\ store' = [store EXCEPT ![CollectionName] = EmptyCollection]
            /\ collection' = CollectionName
            /\ pc' = "add"
            /\ UNCHANGED raised
    /\ UNCHANGED <<dirMode, fault, pre, client, results, printed, hist>>

\* Variant of client_create_collection: the error of create_collection is
\* swallowed and the call goes on to add.
client_create_collection_swallow ==
    /\ pc = "create_collection"
    /\ client
    /\ LET r == IF fault = "create_collection"
                THEN [err |-> EnvError("create_collection"), store |-> store]
                ELSE create_collection(store, CollectionName)
       IN  /\ steps' = Append(steps, [op |-> "create_collection",
                                      ok |-> r.err = NoErr])
           /\ store' = r.store
           /\ collection' = CollectionName
           /\ pc' = "add"
           /\ UNCHANGED raised
    /\ UNCHANGED <<dirMode, fault, pre, client, results, printed, hist>>

\* try: collection = client.create_collection(name=...)
client_create_collection ==
    /\ pc = "create_collection"
    /\ client
    /\ LET r == IF fault = "create_collection"
                THEN [err |-> EnvError("create_collection"), store |-> store]
                ELSE create_collection(store, CollectionName)
       IN  IF r.err # NoErr
           THEN /\ steps' = Append(steps, [op |-> "create_collection",
                                           ok |-> FALSE])
                /\ raised' = r.err
                /\ pc' = "except"
                /\ UNCHANGED <<store, collection>>
           ELSE /\ steps' = Append(steps, [op |-> "create_collection",
                                           ok |-> TRUE])
                /\ store' = r.store
                /\ collection' = CollectionName
                /\ pc' = "add"
                /\ UNCHANGED raised
    /\ UNCHANGED <<dirMode, fault, pre, client, results, printed, hist>>

\* Variant of collection_add: the document is never handed to the store.
collection_add_noop ==
    /\ pc = "add"
    /\ collection \in Names
    /\ IF fault = "add"
       THEN /\ steps' = Append(steps, [op |-> "add", ok |-> FALSE])
            /\ raised' = EnvError("add")
            /\ pc' = "except"
       ELSE /\ steps' = Append(steps, [op |-> "add", ok |-> TRUE])
            /\ pc' = "query"
            /\ UNCHANGED raised
    /\ UNCHANGED <<dirMode, store, fault, pre, client, collection, results,
                   printed, hist>>

\* Variant of collection_add: the document goes to another collection.
collection_add_other ==
    /\ pc = "add"
    /\ collection \in Names
    /\ IF fault = "add"
       THEN /\ steps' = Append(steps, [op |-> "add", ok |-> FALSE])
            /\ raised' = EnvError("add")
            /\ pc' = "except"
            /\ UNCHANGED store
       ELSE /\ steps' = Append(steps, [op |-> "add", ok |-> TRUE])
            /\ store' = [store EXCEPT ![OtherName] =
                            [exists |-> TRUE, ids |-> @.ids \cup {DocId}]]
            /\ pc' = "query"
            /\ UNCHANGED raised
    /\ UNCHANGED <<dirMode, fault, pre, client, collection, results, printed,
                   hist>>

\* collection.add(documents=[...], metadatas=[...], ids=["test_doc_1"])
collection_add ==
    /\ pc = "add"
    /\ collection \in Names
    /\ LET r == IF fault = "add"
                THEN [err |-> EnvError("add"), store |-> store]
                ELSE add(store, collection, DocId)
       IN  IF r.err # NoErr
           THEN /\ steps' = Append(steps, [op |-> "add", ok |-> FALSE])
                /\ raised' = r.err
                /\ pc' = "except"
                /\ UNCHANGED store
           ELSE /\ steps' = Append(steps, [op |-> "add", ok |-> TRUE])
                /\ store' = r.store
                /\ pc' = "query"
                /\ UNCHANGED raised
    /\ UNCHANGED <<dirMode, fault, pre, client, collection, results, printed,
                   hist>>

\* Variant of collection_query: no result is requested.
collection_query_zero ==
    /\ pc = "query"
    /\ collection \in Names
    /\ IF fault = "query"
       THEN /\ steps' = Append(steps, [op |-> "query", ok |-> FALSE])
            /\ raised' = EnvError("query")
            /\ pc' = "except"
            /\ UNCHANGED results
       ELSE /\ steps' = Append(steps, [op |-> "query", ok |-> TRUE])
            /\ results' = query(store, collection, 0)
            /\ pc' = "print"
            /\ UNCHANGED raised
    /\ UNCHANGED <<dirMode, store, fault, pre, client, collection, printed,
                   hist>>

\* results = collection.query(query_texts=[...], n_results=1)
collection_query ==
    /\ pc = "query"
    /\ collection \in Names
    /\ IF fault = "query"
       THEN /\ steps' = Append(steps, [op |-> "query", ok |-> FALSE])
            /\ raised' = EnvError("query")
            /\ pc' = "except"
            /\ UNCHANGED results
       ELSE /\ steps' = Append(steps, [op |-> "query", ok |-> TRUE])
            /\ results' = query(store, collection, NResults)
            /\ pc' = "print"
            /\ UNCHANGED raised
    /\ UNCHANGED <<dirMode, store, fault, pre, client, collection, printed,
                   hist>>

\* The two success lines are printed and True is returned.
return_True ==
    /\ pc = "print"
    /\ steps' = steps
    /\ EndCall("true", <<SuccessLine, CountLine(results)>>, NoErr)
    /\ UNCHANGED <<dirMode, store>>

\* Variant of except_Exception: the handler returns True.
except_Exception_True ==
    /\ pc = "except"
    /\ steps' = steps
    /\ EndCall("true", <<FailureLine(raised)>>, raised)
    /\ UNCHANGED <<dirMode, store>>

\* except Exception as e: the failure line is printed and False is returned.
except_Exception ==
    /\ pc = "except"
    /\ steps' = steps
    /\ EndCall("false", <<FailureLine(raised)>>, raised)
    /\ UNCHANGED <<dirMode, store>>

Next ==
    \/ \E f \in {NoFault} \cup StageSet : initialize_chromadb(f)
    \/ Settings
    \/ Client
    \/ client_create_collection
    \/ collection_add
    \/ collection_query
    \/ return_True
    \/ except_Exception

Spec == Init /\ [][Next]_vars

\* ============================================================ claims
\* Helpers over the record of an ended call.
Ended == {hist[i] : i \in 1..Len(hist)}
Ops(s) == {s[i].op : i \in 1..Len(s)}
OkOps(s) == {s[i].op : i \in {j \in 1..Len(s) : s[j].ok}}
HasSuccess(out) == \E i \in 1..Len(out) : out[i].kind \in {"success", "count"}
HasFailure(out) == \E i \in 1..Len(out) : out[i].kind = "failure"
Fresh(h) == dirMode = "writable" /\ ~h.pre.exists
Nominal(h) == h.fault = NoFault
Stored == [exists |-> TRUE, ids |-> {DocId}]
\* The call got past Settings(...) and chromadb.Client(...).
EnteredTry(h) == "Client" \in OkOps(h.steps)
\* create_collection succeeded and add or query failed.
Partial(h) ==
    /\ "create_collection" \in OkOps(h.steps)
    /\ \E i \in 1..Len(h.steps) :
          h.steps[i].op \in {"add", "query"} /\ ~h.steps[i].ok

\* C1: every failure raised while building the configuration, constructing
\* the client, creating the collection, adding the document or querying ends
\* the call with the failure line carrying the error's description and the
\* result false; no exception leaves the call.
C1_AllFailuresCaught ==
    \A h \in Ended :
        h.raised # NoErr =>
            /\ h.result = "false"
            /\ h.printed = <<FailureLine(h.raised)>>

\* C2: with a read-only or non-creatable persistence directory every call
\* returns false (neither true nor an exception).
C2_UnwritableDirReturnsFalse ==
    dirMode # "writable" => \A h \in Ended : h.result = "false"

\* C3: from a fresh directory, with no failure of the environment, two
\* successive calls return true and then false, the second one refused
\* because the collection of the first is still in the directory.
C3_TrueThenFalse ==
    \A i \in 1..(Len(hist) - 1) :
        (Fresh(hist[i]) /\ Nominal(hist[i]) /\ Nominal(hist[i + 1])) =>
            /\ hist[i].result = "true"
            /\ hist[i + 1].result = "false"
            /\ hist[i + 1].pre = Stored
            /\ hist[i + 1].raised = "CollectionExists"

C3_Witness ==
    /\ Len(hist) >= 2
    /\ Fresh(hist[1]) /\ Nominal(hist[1]) /\ Nominal(hist[2])
    /\ hist[2].result = "false"

\* C4: after a call that returned true on a writable, empty directory the
\* collection with its document is in the directory when the call ends, is
\* what every later call finds at its start, and is still there now.
C4_DurableAfterTrue ==
    \A i \in 1..Len(hist) :
        (Fresh(hist[i]) /\ hist[i].result = "true") =>
            /\ hist[i].post = Stored
            /\ \A j \in (i + 1)..Len(hist) : hist[j].pre = Stored
            /\ store[CollectionName] = Stored

C4_Witness ==
    /\ Len(hist) >= 2
    /\ Fresh(hist[1])
    /\ hist[1].result = "true"
    /\ hist[2].pre = Stored

\* C5: a call that starts with the collection already in the directory
\* returns false with the failure line, attempts neither add nor query and
\* prints no success line.
C5_DuplicateReturnsFalse ==
    \A h \in Ended :
        h.pre.exists =>
            /\ h.result = "false"
            /\ HasFailure(h.printed)
            /\ ~HasSuccess(h.printed)
            /\ Ops(h.steps) \cap {"add", "query"} = {}

\* C5, inside the try block: a call that starts with the collection already
\* in the directory and whose client was constructed returns false with the
\* failure line; no call that starts so returns true, adds, queries or
\* prints a success line.
C5_DuplicateInsideTry ==
    \A h \in Ended :
        h.pre.exists =>
            /\ EnteredTry(h) =>
                  /\ h.result = "false"
                  /\ h.printed = <<FailureLine(h.raised)>>
                  /\ h.raised # NoErr
            /\ h.result # "true"
            /\ ~HasSuccess(h.printed)
            /\ Ops(h.steps) \cap {"add", "query"} = {}

\* C6: on a writable, empty directory, with no failure of the environment,
\* the call returns true and the count it prints is 1.
C6_CountIsOne ==
    \A h \in Ended :
        (Fresh(h) /\ Nominal(h)) =>
            /\ h.result = "true"
            /\ h.printed = <<SuccessLine, CountLine(1)>>
            /\ h.post = Stored

C6_Witness ==
    \E h \in Ended : Fresh(h) /\ Nominal(h) /\ h.result = "true"

\* C7: no step of any call, successful or failed, changes a collection other
\* than "test_offline_collection".
C7_OtherCollectionsUntouched ==
    [][\A n \in Names \ {CollectionName} : store'[n] = store[n]]_vars

C7_Witness ==
    /\ store[OtherName] = [exists |-> TRUE, ids |-> {OtherDoc}]
    /\ \E h \in Ended : h.result = "true"
    /\ \E h \in Ended : h.result = "false"

\* C8: when create_collection succeeded and add or query then failed, the
\* call returns false, the collection (with the document, if add had
\* succeeded) stays in the directory, and every later call returns false.
C8_PartialFailureSticks ==
    \A i \in 1..Len(hist) :
        Partial(hist[i]) =>
            /\ hist[i].result = "false"
            /\ hist[i].post.exists
            /\ "add" \in OkOps(hist[i].steps) => hist[i].post = Stored
            /\ \A j \in (i + 1)..Len(hist) : hist[j].result = "false"

\* C8, inside the try block: after such a partial failure the collection
\* stays as the call left it, no later call returns true, and every later
\* call whose client was constructed returns false.
C8_PartialInsideTry ==
    \A i \in 1..Len(hist) :
        Partial(hist[i]) =>
            /\ hist[i].result = "false"
            /\ hist[i].post.exists
            /\ "add" \in OkOps(hist[i].steps) => hist[i].post = Stored
            /\ store[CollectionName] = hist[i].post
            /\ \A j \in (i + 1)..Len(hist) :
                  /\ hist[j].pre = hist[i].post
                  /\ hist[j].result # "true"
                  /\ EnteredTry(hist[j]) => hist[j].result = "false"

\* C9: within a call the external operations are attempted in program order,
\* each at most once, each only after the one before it succeeded, and none
\* after the first that failed.
InOrder(s) ==
    /\ Len(s) <= Len(Stages)
    /\ \A i \in 1..Len(s) :
          /\ s[i].op = Stages[i]
          /\ i < Len(s) => s[i].ok

C9_LinearSingleAttempt ==
    /\ InOrder(steps)
    /\ \A h \in Ended : InOrder(h.steps)

C9_Witness ==
    \E h \in Ended :
        /\ Len(h.steps) = 4
        /\ ~h.steps[4].ok
        /\ h.result = "false"

\* C10: a call that returns gives true exactly when the success lines were
\* printed and create_collection, add and query all succeeded, gives false
\* exactly when the failure line was printed, and never prints both.
C10_OutputMatchesResult ==
    \A h \in Ended :
        h.result \in {"true", "false"} =>
            /\ h.result = "true" <=>
                  /\ HasSuccess(h.printed)
                  /\ {"create_collection", "add", "query"} \subseteq
                        OkOps(h.steps)
            /\ h.result = "false" <=> HasFailure(h.printed)
            /\ ~(HasSuccess(h.printed) /\ HasFailure(h.printed))

C10_Witness ==
    /\ \E h \in Ended : h.result = "true" /\ HasSuccess(h.printed)
    /\ \E h \in Ended : h.result = "false" /\ HasFailure(h.printed)

====
